---- MODULE Spec2Model ----
(***************************************************************************)
(* Model of systray's Application (src/src/lib.rs): the menu-index         *)
(* counter, the callback registry, the event channel and the dispatch loop *)
(* wait_for_message, including handlers that call back into the            *)
(* Application (add_menu_item, add_menu_separator, quit, wait_for_message). *)
(*                                                                         *)
(* The platform window (api::platform::Window) is not part of lib.rs; its  *)
(* behaviour (accepting or rejecting a menu entry, producing events,       *)
(* dropping the sender) is modelled from its contract.                     *)
(***************************************************************************)
EXTENDS Integers, Sequences, FiniteSets, TLC

(* ------------------------------ bounds --------------------------------- *)
\* add_menu_item / add_menu_separator calls made, by the main thread or by
\* handlers
MaxAdds == 2
\* events the platform window pushes into the channel
MaxEvents == 2
\* wait_for_message calls made, by the main thread or by handlers
MaxWaits == 2

(* --------------------------- program constants ------------------------- *)
\* menu_idx, the registry keys and SystrayEvent.menu_index are u32.  The model
\* checker's integers are 32-bit signed, so a u32 is held as the signed integer
\* with the same bit pattern: 0 .. 2^31-1 stand for themselves, 2^31 .. 2^32-1
\* are held as -2^31 .. -1 (u32::MAX is -1).
I32Max == 2147483647
I32Min == -I32Max - 1
U32Max == -1

\* a < b as unsigned 32-bit values
ULess(a, b) == IF (a >= 0) = (b >= 0) THEN a < b ELSE a >= 0

(* ------------------------------- values -------------------------------- *)
\* A registered closure is an FnMut with captured state: what it does is
\* decided at each invocation.  An invocation makes at most one call on the
\* Application it is given (add_menu_item, add_menu_separator, quit or
\* wait_for_message) and then returns Ok(()) or Err(e).  id tells the closures
\* apart.
NoHandler == [id |-> -1]

\* enum Error: tag is the innermost variant, src the handler that raised it,
\* wraps the number of Error::Error layers around it.
NoError == [tag |-> "none", src |-> -1, wraps |-> 0]
OsError == [tag |-> "OsError", src |-> -1, wraps |-> 0]
HandlerError(id) == [tag |-> "HandlerError", src |-> id, wraps |-> 0]

\* impl From<BoxedError> for Error
FromBoxedError(value) == [value EXCEPT !.wraps = @ + 1]

Ok == [ok |-> TRUE, err |-> NoError]
Err(e) == [ok |-> FALSE, err |-> e]
NoResult == [ok |-> FALSE, err |-> NoError]

\* Entries of the history.  ev is what happened:
\*   add_menu_item, add_menu_separator : a call; idx the index it read from
\*       menu_idx, ok whether it returned Ok, ret = <<i>> for Ok(i)
\*   quit   : a quit call made by the main thread or by a handler
\*   start  : wait_for_message took handler id for event seq and invoked it
\*   miss   : wait_for_message found no handler for event seq
\*   end    : the invocation for event seq returned (ok: Ok(()) or Err)
\*   quit_on_close : wait_for_message called quit because recv failed
\*   return : a wait_for_message call returned (ok: Ok(()) or Err)
\* depth is the number of active wait_for_message calls at that moment.
Entry(ev, idx, seq, id, ok, ret, depth) ==
    [ev |-> ev, idx |-> idx, seq |-> seq, id |-> id, ok |-> ok, ret |-> ret,
     depth |-> depth]

\* no set_icon_from_image_file call has been made yet
NoIcon == [calls |-> <<>>, res |-> NoResult]

VARIABLES
    menu_idx,     \* Application.menu_idx
    callback,     \* Application.callback : index -> handler
    queue,        \* events in the channel, oldest first
    closed,       \* every Sender of the channel has been dropped
    stack,        \* active wait_for_message calls, outermost first
    quit_calls,   \* number of Window::quit calls made so far
    result,       \* what the last wait_for_message call returned, and how
    hist,         \* history: calls made, events dispatched, returns
    closures,     \* history: closures handed to add_menu_item so far
    sent,         \* history: events pushed so far
    busy_sent,    \* history: events pushed while the handler of their index ran
    adds,         \* history: add_* calls made so far
    waits,        \* history: wait_for_message calls made so far
    icon,         \* the last set_icon_from_image_file call and its outcome
    panicked      \* the thread owning the Application has panicked

vars == <<menu_idx, callback, queue, closed, stack, quit_calls, result,
          hist, closures, sent, busy_sent, adds, waits, icon, panicked>>

(* ------------------------------ helpers -------------------------------- *)
\* HashMap::new
EmptyMap == [x \in {} |-> NoHandler]

\* HashMap::insert: adds the key or replaces its value
Insert(m, k, v) == [x \in (DOMAIN m) \cup {k} |-> IF x = k THEN v ELSE m[x]]

\* HashMap::remove
Remove(m, k) == [x \in (DOMAIN m) \ {k} |-> m[x]]

\* HashMap::contains_key
ContainsKey(m, k) == k \in DOMAIN m

\* self.menu_idx += 1 on a u32, as in a build without overflow checks: on the
\* bit pattern this is n + 1, u32::MAX (-1) going to 0
Inc(n) == IF n = I32Max THEN I32Min ELSE n + 1

Top == stack[Len(stack)]

\* the main thread holds the Application: no wait_for_message is active (and
\* the thread has not panicked)
InMain == stack = <<>> /\ ~panicked

\* the body of a handler is running and has not made its call yet
InHandler ==
    /\ stack # <<>>
    /\ Top.pc = "handler"
    /\ ~Top.done

\* an invocation of the handler taken for index i is in progress
Running(i) == \E k \in 1..Len(stack) : stack[k].pc = "handler" /\ stack[k].msg = i

\* the caller's position after the call returned
AfterCall(s) == IF s = <<>> THEN s ELSE [s EXCEPT ![Len(s)].done = TRUE]

\* a frame of wait_for_message blocked in self.rx.recv()
RecvFrame == [pc |-> "recv", msg |-> -1, seq |-> -1, f |-> NoHandler,
              done |-> FALSE, sub |-> NoResult]

\* the loop going on after a handler error instead of returning
PopFrame_KeepsLooping(s, r) == [s EXCEPT ![Len(s)] = RecvFrame]

\* wait_for_message returns r: its frame goes away and the caller, if it is a
\* handler, receives r
PopFrame(s, r) ==
    LET rest == SubSeq(s, 1, Len(s) - 1)
    IN  IF rest = <<>> THEN rest
        ELSE [rest EXCEPT ![Len(rest)].sub = r, ![Len(rest)].done = TRUE]

(* ------------------------------- Init ---------------------------------- *)
\* Application::new with a window that was created successfully
InitAt(n) ==
    /\ menu_idx = n
    /\ callback = EmptyMap
    /\ queue = <<>>
    /\ closed = FALSE
    /\ stack = <<>>
    /\ quit_calls = 0
    /\ result = [depth |-> 0, res |-> NoResult]
    /\ hist = <<>>
    /\ closures = 0
    /\ sent = 0
    /\ busy_sent = {}
    /\ adds = 0
    /\ waits = 0
    /\ icon = NoIcon
    /\ panicked = FALSE

Init == InitAt(0)

(* ------------------------- menu construction --------------------------- *)
\* make_callback: the closure boxed as a Callback
make_callback(id) == [id |-> id]

\* add_menu_item with the counter advanced before the window is asked
add_menu_item_CountsBeforeCheck(mi, cb, f, accepted) ==
    LET idx == mi
    IN  IF ~accepted
        THEN [menu_idx |-> Inc(mi), callback |-> cb, ret |-> <<>>,
              err |-> OsError]
        ELSE [menu_idx |-> Inc(mi), callback |-> Insert(cb, idx, f),
              ret |-> <<idx>>, err |-> NoError]

\* add_menu_item with the handler stored before the window is asked
add_menu_item_InsertsBeforeCheck(mi, cb, f, accepted) ==
    LET idx == mi
    IN  IF ~accepted
        THEN [menu_idx |-> mi, callback |-> Insert(cb, idx, f), ret |-> <<>>,
              err |-> OsError]
        ELSE [menu_idx |-> Inc(mi), callback |-> Insert(cb, idx, f),
              ret |-> <<idx>>, err |-> NoError]

\* add_menu_item storing the handler after the counter was advanced
add_menu_item_KeyAfterIncrement(mi, cb, f, accepted) ==
    LET idx == mi
    IN  IF ~accepted
        THEN [menu_idx |-> mi, callback |-> cb, ret |-> <<>>, err |-> OsError]
        ELSE [menu_idx |-> Inc(mi), callback |-> Insert(cb, Inc(mi), f),
              ret |-> <<idx>>, err |-> NoError]

\* add_menu_item on a state with counter mi and registry cb; accepted tells
\* whether self.window.add_menu_entry(idx, item_name) returned Ok
add_menu_item(mi, cb, f, accepted) ==
    LET idx == mi
    IN  IF ~accepted
        THEN [menu_idx |-> mi, callback |-> cb, ret |-> <<>>, err |-> OsError]
        ELSE [menu_idx |-> Inc(mi), callback |-> Insert(cb, idx, f),
              ret |-> <<idx>>, err |-> NoError]

\* add_menu_separator with the counter advanced before the window is asked
add_menu_separator_CountsBeforeCheck(mi, cb, accepted) ==
    LET idx == mi
    IN  IF ~accepted
        THEN [menu_idx |-> Inc(mi), callback |-> cb, ret |-> <<>>,
              err |-> OsError]
        ELSE [menu_idx |-> Inc(mi), callback |-> cb, ret |-> <<idx>>,
              err |-> NoError]

\* add_menu_separator storing a handler as add_menu_item does
add_menu_separator_StoresHandler(mi, cb, accepted) ==
    LET idx == mi
    IN  IF ~accepted
        THEN [menu_idx |-> mi, callback |-> cb, ret |-> <<>>, err |-> OsError]
        ELSE [menu_idx |-> Inc(mi),
              callback |-> Insert(cb, idx, make_callback(-1)),
              ret |-> <<idx>>, err |-> NoError]

\* add_menu_separator; accepted tells whether
\* self.window.add_menu_separator(idx) returned Ok
add_menu_separator(mi, cb, accepted) ==
    LET idx == mi
    IN  IF ~accepted
        THEN [menu_idx |-> mi, callback |-> cb, ret |-> <<>>, err |-> OsError]
        ELSE [menu_idx |-> Inc(mi), callback |-> cb, ret |-> <<idx>>,
              err |-> NoError]

\* a call of add_menu_item, by the main thread or by a running handler
AddMenuItem(accepted) ==
    /\ InMain \/ InHandler
    /\ adds < MaxAdds
    /\ LET r == add_menu_item(menu_idx, callback, make_callback(closures),
                              accepted)
       IN  /\ menu_idx' = r.menu_idx
           /\ callback' = r.callback
           /\ hist' = Append(hist, Entry("add_menu_item", menu_idx, -1,
                                         closures, r.ret # <<>>, r.ret,
                                         Len(stack)))
    /\ closures' = closures + 1
    /\ adds' = adds + 1
    /\ stack' = AfterCall(stack)
    /\ UNCHANGED <<icon, panicked, busy_sent, queue, closed, quit_calls, result, sent, waits>>

\* a call of add_menu_separator, by the main thread or by a running handler
AddMenuSeparator(accepted) ==
    /\ InMain \/ InHandler
    /\ adds < MaxAdds
    /\ LET r == add_menu_separator(menu_idx, callback, accepted)
       IN  /\ menu_idx' = r.menu_idx
           /\ callback' = r.callback
           /\ hist' = Append(hist, Entry("add_menu_separator", menu_idx, -1,
                                         -1, r.ret # <<>>, r.ret, Len(stack)))
    /\ adds' = adds + 1
    /\ stack' = AfterCall(stack)
    /\ UNCHANGED <<icon, panicked, busy_sent, queue, closed, quit_calls, result, closures, sent,
                   waits>>

\* a call of quit by a running handler (a quit call of the main thread only
\* reaches the window and is left out)
Quit ==
    /\ InHandler
    /\ quit_calls' = quit_calls + 1
    /\ hist' = Append(hist, Entry("quit", -1, -1, -1, TRUE, <<>>, Len(stack)))
    /\ stack' = AfterCall(stack)
    /\ UNCHANGED <<icon, panicked, busy_sent, menu_idx, callback, queue, closed, result, closures, sent,
                   adds, waits>>

(* --------------------------- platform window --------------------------- *)
\* the indices the window may send: those of the entries it was asked to
\* create, and one that was never allocated
EventIndices ==
    {hist[p].ret[1] : p \in {r \in DOMAIN hist : hist[r].ret # <<>>}}
        \cup {menu_idx}

\* the window's thread sends SystrayEvent { menu_index: i }
Enqueue ==
    /\ ~closed
    /\ sent < MaxEvents
    /\ \E i \in EventIndices :
          /\ queue' = Append(queue, [menu_index |-> i, seq |-> sent])
          /\ busy_sent' = IF Running(i) THEN busy_sent \cup {sent}
                          ELSE busy_sent
    /\ sent' = sent + 1
    /\ UNCHANGED <<icon, panicked, menu_idx, callback, closed, stack, quit_calls, result,
                   hist, closures, adds, waits>>

\* the window drops its Sender
CloseChannel ==
    /\ ~closed
    /\ closed' = TRUE
    /\ UNCHANGED <<icon, panicked, busy_sent, menu_idx, callback, queue, stack, quit_calls, result,
                   hist, closures, sent, adds, waits>>

(* ----------------------------- dispatch -------------------------------- *)
\* the handler invoked in place, without being removed
Take_LeavesEntry(cb, i) == cb

\* self.callback.remove(&msg.menu_index): the registry without the handler
Take(cb, i) == Remove(cb, i)

\* the handler not re-inserted after the invocation
PutBack_Dropped(cb, i, f) == cb

\* the handler put back under the following index
PutBack_WrongKey(cb, i, f) == Insert(cb, Inc(i), f)

\* self.callback.insert(msg.menu_index, f) after f(self)? succeeded
PutBack(cb, i, f) == Insert(cb, i, f)

\* the newest event received first
recv_Newest(q) == [msg |-> q[Len(q)], rest |-> SubSeq(q, 1, Len(q) - 1)]

\* self.rx.recv() on a channel holding q (q not empty): the oldest event is
\* received and leaves the channel
recv(q) == [msg |-> Head(q), rest |-> Tail(q)]

\* wait_for_message is entered and blocks in recv
WaitForMessage ==
    /\ InMain \/ InHandler
    /\ waits < MaxWaits
    /\ waits' = waits + 1
    /\ stack' = Append(stack, RecvFrame)
    /\ UNCHANGED <<icon, panicked, busy_sent, menu_idx, callback, queue, closed, quit_calls, result,
                   hist, closures, sent, adds>>

\* recv yields an event whose index has a handler: take it and invoke it
DispatchHit ==
    /\ stack # <<>>
    /\ Top.pc = "recv"
    /\ queue # <<>>
    /\ LET msg == recv(queue).msg
       IN  /\ ContainsKey(callback, msg.menu_index)
           /\ callback' = Take(callback, msg.menu_index)
           /\ stack' = [stack EXCEPT ![Len(stack)] =
                  [pc |-> "handler", msg |-> msg.menu_index, seq |-> msg.seq,
                   f |-> callback[msg.menu_index], done |-> FALSE,
                   sub |-> NoResult]]
           /\ hist' = Append(hist, Entry("start", msg.menu_index, msg.seq,
                                         callback[msg.menu_index].id, TRUE,
                                         <<>>, Len(stack)))
    /\ queue' = recv(queue).rest
    /\ UNCHANGED <<icon, panicked, busy_sent, menu_idx, closed, quit_calls, result, closures, sent,
                   adds, waits>>

\* an event without handler ending the loop
DispatchMiss_EndsLoop ==
    /\ stack # <<>>
    /\ Top.pc = "recv"
    /\ queue # <<>>
    /\ ~ContainsKey(callback, recv(queue).msg.menu_index)
    /\ queue' = recv(queue).rest
    /\ hist' = Append(hist, Entry("miss", recv(queue).msg.menu_index,
                                  recv(queue).msg.seq, -1, TRUE, <<>>,
                                  Len(stack)))
    /\ result' = [depth |-> Len(stack), res |-> Ok]
    /\ stack' = PopFrame(stack, Ok)
    /\ UNCHANGED <<icon, panicked, busy_sent, menu_idx, callback, closed, quit_calls,
                   closures, sent, adds, waits>>

\* recv yields an event whose index has no handler: nothing happens
DispatchMiss ==
    /\ stack # <<>>
    /\ Top.pc = "recv"
    /\ queue # <<>>
    /\ ~ContainsKey(callback, recv(queue).msg.menu_index)
    /\ queue' = recv(queue).rest
    /\ hist' = Append(hist, Entry("miss", recv(queue).msg.menu_index,
                                  recv(queue).msg.seq, -1, TRUE, <<>>,
                                  Len(stack)))
    /\ UNCHANGED <<icon, panicked, busy_sent, menu_idx, callback, closed, stack, quit_calls, result,
                   closures, sent, adds, waits>>

\* the loop left on closure without telling the window to quit
RecvClosed_WithoutQuit ==
    /\ stack # <<>>
    /\ Top.pc = "recv"
    /\ queue = <<>>
    /\ closed
    /\ result' = [depth |-> Len(stack), res |-> Ok]
    /\ stack' = PopFrame(stack, Ok)
    /\ hist' = Append(hist, Entry("return", -1, -1, -1, TRUE, <<>>,
                                  Len(stack)))
    /\ UNCHANGED <<icon, panicked, busy_sent, menu_idx, callback, queue, closed, quit_calls,
                   closures, sent, adds, waits>>

\* recv fails (no sender left, nothing buffered): quit and return Ok(())
RecvClosed ==
    /\ stack # <<>>
    /\ Top.pc = "recv"
    /\ queue = <<>>
    /\ closed
    /\ quit_calls' = quit_calls + 1
    /\ result' = [depth |-> Len(stack), res |-> Ok]
    /\ stack' = PopFrame(stack, Ok)
    /\ hist' = hist \o
         << Entry("quit_on_close", -1, -1, -1, TRUE, <<>>, Len(stack)),
            Entry("return", -1, -1, -1, TRUE, <<>>, Len(stack)) >>
    /\ UNCHANGED <<icon, panicked, busy_sent, menu_idx, callback, queue, closed, closures, sent,
                   adds, waits>>

\* the error a closure returns when it fails: the error of the
\* wait_for_message call it made, if that failed, else one of its own
HandlerErr(fr) ==
    IF fr.sub # NoResult /\ ~fr.sub.ok THEN fr.sub.err
    ELSE HandlerError(fr.f.id)

\* the body of a closure is running (and not inside a call it made)
HandlerRunning ==
    /\ stack # <<>>
    /\ Top.pc = "handler"

\* the loop ending with Ok(()) once a handler that called quit has returned
HandlerReturnOk_StopsAfterQuit ==
    /\ HandlerRunning
    /\ callback' = PutBack(callback, Top.msg, Top.f)
    /\ IF hist[Len(hist)].ev = "quit"
       THEN /\ result' = [depth |-> Len(stack), res |-> Ok]
            /\ stack' = PopFrame(stack, Ok)
            /\ hist' = hist \o
                 << Entry("end", Top.msg, Top.seq, Top.f.id, TRUE, <<>>,
                          Len(stack)),
                    Entry("return", -1, -1, -1, TRUE, <<>>, Len(stack)) >>
       ELSE /\ result' = result
            /\ stack' = [stack EXCEPT ![Len(stack)] = RecvFrame]
            /\ hist' = Append(hist, Entry("end", Top.msg, Top.seq, Top.f.id,
                                          TRUE, <<>>, Len(stack)))
    /\ UNCHANGED <<icon, panicked, busy_sent, menu_idx, queue, closed, quit_calls,
                   closures, sent, adds, waits>>

\* f(self)? succeeded: the handler is put back and the loop goes on
HandlerReturnOk ==
    /\ HandlerRunning
    /\ callback' = PutBack(callback, Top.msg, Top.f)
    /\ stack' = [stack EXCEPT ![Len(stack)] = RecvFrame]
    /\ hist' = Append(hist, Entry("end", Top.msg, Top.seq, Top.f.id, TRUE,
                                  <<>>, Len(stack)))
    /\ UNCHANGED <<icon, panicked, busy_sent, menu_idx, queue, closed, quit_calls, result, closures,
                   sent, adds, waits>>

\* the handler restored although it returned an error
HandlerReturnErr_PutsBack ==
    /\ HandlerRunning
    /\ LET r == Err(FromBoxedError(HandlerErr(Top)))
       IN  /\ result' = [depth |-> Len(stack), res |-> r]
           /\ stack' = PopFrame(stack, r)
    /\ callback' = PutBack(callback, Top.msg, Top.f)
    /\ hist' = hist \o
         << Entry("end", Top.msg, Top.seq, Top.f.id, FALSE, <<>>, Len(stack)),
            Entry("return", -1, -1, -1, FALSE, <<>>, Len(stack)) >>
    /\ UNCHANGED <<icon, panicked, busy_sent, menu_idx, queue, closed, quit_calls,
                   closures, sent, adds, waits>>

\* f(self)? failed: wait_for_message returns the converted error
HandlerReturnErr ==
    /\ HandlerRunning
    /\ LET r == Err(FromBoxedError(HandlerErr(Top)))
       IN  /\ result' = [depth |-> Len(stack), res |-> r]
           /\ stack' = PopFrame(stack, r)
    /\ hist' = hist \o
         << Entry("end", Top.msg, Top.seq, Top.f.id, FALSE, <<>>, Len(stack)),
            Entry("return", -1, -1, -1, FALSE, <<>>, Len(stack)) >>
    /\ UNCHANGED <<icon, panicked, busy_sent, menu_idx, callback, queue, closed, quit_calls, closures,
                   sent, adds, waits>>

(* ------------------------------- icons --------------------------------- *)
\* A path is a sequence of one-character strings.  The paths used here do
\* not end in "/" and have no "." or ".." component.
NotImplementedError == [tag |-> "NotImplementedError", src |-> -1, wraps |-> 0]

\* Error::OsError(format!(...)) built by set_icon_from_image_file itself
OsErrorOf(msg) == [tag |-> "OsError", src |-> -1, wraps |-> 0, msg |-> msg]

\* char::to_lowercase on the characters used
LowerChar(c) ==
    CASE c = "P" -> "p" [] c = "N" -> "n" [] c = "G" -> "g" [] c = "J" -> "j"
      [] c = "E" -> "e" [] c = "I" -> "i" [] c = "C" -> "c" [] c = "O" -> "o"
      [] c = "B" -> "b" [] c = "M" -> "m" [] OTHER -> c

\* the extension compared as it is spelled
to_lowercase_AsIs(s) == s

\* str::to_lowercase
to_lowercase(s) == [k \in DOMAIN s |-> LowerChar(s[k])]

\* the position of the last c in s, 0 if there is none
LastIndexOf(s, c) ==
    LET P == {k \in DOMAIN s : s[k] = c}
    IN  IF P = {} THEN 0 ELSE CHOOSE k \in P : \A j \in P : j <= k

\* Path::file_name: the final component
file_name(path) == SubSeq(path, LastIndexOf(path, "/") + 1, Len(path))

\* Path::extension as an Option (<<>> is None, <<e>> is Some(e)): None if the
\* file name has no ".", or only a leading one; else what follows the last "."
extension(path) ==
    LET name == file_name(path)
        dot  == LastIndexOf(name, ".")
    IN  IF dot <= 1 THEN <<>>
        ELSE << SubSeq(name, dot + 1, Len(name)) >>

\* Option::unwrap_or
unwrap_or(opt, default) == IF opt = <<>> THEN default ELSE opt[1]

Png == <<"p", "n", "g">>
Jpg == <<"j", "p", "g">>
Jpeg == <<"j", "p", "e", "g">>
Ico == <<"i", "c", "o">>
Bmp == <<"b", "m", "p">>

\* Application::set_icon_from_image_file(file).  native is what
\* window.set_icon_from_file returns, image the outcome of opening and
\* decoding the file, target_os the platform of the build, buffer what the
\* window's buffer setter returns.  The value has the window calls made, in
\* order, and the result returned.
set_icon_from_image_file(file, native, image, target_os, buffer) ==
    LET ext == to_lowercase(unwrap_or(extension(file), <<>>))
        direct == << <<"set_icon_from_file", file>> >>
    IN  IF ext \in {Png, Jpg, Jpeg}
        THEN IF native.ok THEN [calls |-> direct, res |-> Ok]
             ELSE IF image = "open_failed"
             THEN [calls |-> direct,
                   res |-> Err(OsErrorOf(<<"Failed to open image: ">>))]
             ELSE IF image = "decode_failed"
             THEN [calls |-> direct,
                   res |-> Err(OsErrorOf(<<"Failed to decode image: ">>))]
             ELSE IF target_os = "windows"
             THEN [calls |-> Append(direct, <<"set_icon_from_buffer", "rgba">>),
                   res |-> buffer]
             ELSE IF target_os = "linux"
             THEN [calls |-> Append(direct,
                                    <<"set_icon_from_image_buffer", "rgba">>),
                   res |-> buffer]
             ELSE [calls |-> direct, res |-> Err(NotImplementedError)]
        ELSE IF ext \in {Ico, Bmp}
        THEN [calls |-> direct, res |-> native]
        ELSE [calls |-> <<>>,
              res |-> Err(OsErrorOf(<<"Unsupported image format: ", ext>>))]

\* what a call of the platform window returns
WindowResults == {Ok, Err(OsError), Err(NotImplementedError)}

ImageOutcomes == {"open_failed", "decode_failed", "decoded"}

TargetOs == {"windows", "linux", "other"}

\* spellings of extensions, each with the format it names in lower case
\* ("" when it names none of the five)
Spellings ==
    { [text |-> <<"p", "n", "g">>, kind |-> "png"],
      [text |-> <<"P", "N", "G">>, kind |-> "png"],
      [text |-> <<"P", "n", "g">>, kind |-> "png"],
      [text |-> <<"j", "p", "g">>, kind |-> "jpg"],
      [text |-> <<"J", "P", "G">>, kind |-> "jpg"],
      [text |-> <<"j", "p", "e", "g">>, kind |-> "jpeg"],
      [text |-> <<"J", "p", "E", "g">>, kind |-> "jpeg"],
      [text |-> <<"i", "c", "o">>, kind |-> "ico"],
      [text |-> <<"I", "C", "O">>, kind |-> "ico"],
      [text |-> <<"b", "m", "p">>, kind |-> "bmp"],
      [text |-> <<"B", "m", "P">>, kind |-> "bmp"],
      [text |-> <<"g", "i", "f">>, kind |-> ""],
      [text |-> <<"p", "n">>, kind |-> ""],
      [text |-> <<"p", "n", "g", "x">>, kind |-> ""],
      [text |-> <<"x", "p", "n", "g">>, kind |-> ""],
      [text |-> <<>>, kind |-> ""] }

\* directory prefixes, one of them with a dot in its name
Dirs == { <<>>, <<"d", "/">>, <<"d", ".", "p", "n", "g", "/">> }

\* file names without extension: plain and hidden
PlainStems == { <<"a">>, <<".", "h">> }

\* what may precede the last dot of a file name
Stems == PlainStems \cup { <<"a", ".", "i", "c", "o">> }

\* the paths tried: a name with an extension, a name without one, and a
\* hidden file whose name is a dot followed by the spelling
IconFiles ==
    { [path |-> d \o s \o <<".">> \o e.text, kind |-> e.kind] :
          d \in Dirs, s \in Stems, e \in Spellings }
    \cup { [path |-> d \o s, kind |-> ""] : d \in Dirs, s \in PlainStems }
    \cup { [path |-> d \o <<".">> \o e.text, kind |-> ""] :
               d \in Dirs, e \in Spellings }

\* a call of set_icon_from_image_file, by the main thread or by a handler;
\* it takes &self and reaches only the window, so one call tells all
SetIconFromImageFile ==
    /\ InMain \/ InHandler
    /\ icon = NoIcon
    /\ \E f \in IconFiles, native \in WindowResults, image \in ImageOutcomes,
          os \in TargetOs, buffer \in WindowResults :
          LET r == set_icon_from_image_file(f.path, native, image, os, buffer)
          IN  icon' = [file |-> f, native |-> native, image |-> image,
                       target_os |-> os, buffer |-> buffer,
                       calls |-> r.calls, res |-> r.res]
    /\ UNCHANGED <<menu_idx, callback, queue, closed, stack, quit_calls,
                   result, hist, closures, sent, busy_sent, adds, waits,
                   panicked>>

\* set_icon_from_image_file called on a fresh Application
IconNext == SetIconFromImageFile

IconSpec == Init /\ [][IconNext]_vars

(* ------------------------- counter at u32::MAX ------------------------- *)
\* self.menu_idx += 1 overflows
Overflows(n) == n = U32Max

\* add_menu_item in a build with overflow checks, the counter being u32::MAX:
\* the handler is stored, then self.menu_idx += 1 panics; the panic unwinds
\* every active wait_for_message call and the call never returns
AddMenuItemPanics ==
    /\ InMain \/ InHandler
    /\ adds < MaxAdds
    /\ Overflows(menu_idx)
    /\ callback' = Insert(callback, menu_idx, make_callback(closures))
    /\ hist' = Append(hist, Entry("panic", menu_idx, -1, closures, FALSE, <<>>,
                                  Len(stack)))
    /\ closures' = closures + 1
    /\ adds' = adds + 1
    /\ stack' = <<>>
    /\ panicked' = TRUE
    /\ UNCHANGED <<icon, busy_sent, menu_idx, queue, closed, quit_calls, result,
                   sent, waits>>

\* add_menu_separator in a build with overflow checks, the counter being
\* u32::MAX
AddMenuSeparatorPanics ==
    /\ InMain \/ InHandler
    /\ adds < MaxAdds
    /\ Overflows(menu_idx)
    /\ hist' = Append(hist, Entry("panic", menu_idx, -1, -1, FALSE, <<>>,
                                  Len(stack)))
    /\ adds' = adds + 1
    /\ stack' = <<>>
    /\ panicked' = TRUE
    /\ UNCHANGED <<icon, busy_sent, menu_idx, callback, queue, closed, quit_calls,
                   result, closures, sent, waits>>

\* the Application after one accepted add_menu_item call (index 0, closure
\* 0) followed by accepted add_menu_separator calls up to u32::MAX; the
\* history keeps the first call only, and adds counts the calls from here on
InitWrap ==
    /\ menu_idx = U32Max
    /\ callback = Insert(EmptyMap, 0, make_callback(0))
    /\ queue = <<>>
    /\ closed = FALSE
    /\ stack = <<>>
    /\ quit_calls = 0
    /\ result = [depth |-> 0, res |-> NoResult]
    /\ hist = << Entry("add_menu_item", 0, -1, 0, TRUE, <<0>>, 0) >>
    /\ closures = 1
    /\ sent = 0
    /\ busy_sent = {}
    /\ adds = 0
    /\ waits = 0
    /\ icon = NoIcon
    /\ panicked = FALSE

(* ------------------------------- Next ---------------------------------- *)
Next ==
    \/ \E accepted \in BOOLEAN : AddMenuItem(accepted)
    \/ \E accepted \in BOOLEAN : AddMenuSeparator(accepted)
    \/ Quit
    \/ Enqueue
    \/ CloseChannel
    \/ WaitForMessage
    \/ DispatchHit
    \/ DispatchMiss
    \/ RecvClosed
    \/ HandlerReturnOk
    \/ HandlerReturnErr

Spec == Init /\ [][Next]_vars

\* the same program started with the counter at u32::MAX; advancing it
\* wraps (Inc) or panics, as the build has it
WrapNext ==
    \/ \E accepted \in BOOLEAN : AddMenuItem(accepted)
    \/ \E accepted \in BOOLEAN : AddMenuSeparator(accepted)
    \/ AddMenuItemPanics
    \/ AddMenuSeparatorPanics
    \/ Quit
    \/ Enqueue
    \/ CloseChannel
    \/ WaitForMessage
    \/ DispatchHit
    \/ DispatchMiss
    \/ RecvClosed
    \/ HandlerReturnOk
    \/ HandlerReturnErr

WrapSpec == InitWrap /\ [][WrapNext]_vars

(* ===================== properties of the history ======================= *)
AddEvs == {"add_menu_item", "add_menu_separator"}

IsAdd(e) == e.ev \in AddEvs
IsOkAdd(e) == e.ev \in AddEvs /\ e.ok
IsStart(e) == e.ev = "start"
IsDequeue(e) == e.ev \in {"start", "miss"}

\* the add_* calls made so far, in call order
AddCalls == SelectSeq(hist, IsAdd)

\* the indices returned by the successful add_* calls, in call order
Returned ==
    LET s == SelectSeq(hist, IsOkAdd)
    IN  [k \in 1..Len(s) |-> s[k].ret[1]]

\* positions of the history, and those of the invocations started
Pos == DOMAIN hist
Starts == {p \in Pos : hist[p].ev = "start"}

\* what the history tells about the registry entry of index i, in order:
\* successful registrations under i, invocations for i and their returns
About(i) ==
    SelectSeq(hist, LAMBDA e :
        \/ e.ev = "add_menu_item" /\ e.ok /\ e.ret = <<i>>
        \/ e.ev \in {"start", "end"} /\ e.idx = i)

\* the entry e leaves handler h registered under its index
Registers(e, h) ==
    \/ e.ev = "add_menu_item" /\ e.ok /\ e.id = h
    \/ e.ev = "end" /\ e.ok /\ e.id = h

(* ------------------------------- C1 ------------------------------------ *)
\* C1: over every sequence of add_menu_item / add_menu_separator calls, some
\* of which fail, the k-th successful call returns k-1: the returned indices
\* start at 0, are strictly increasing, have no gaps and are never repeated.
C1_ReturnedIndicesDense ==
    LET R == Returned
    IN  /\ \A k \in 1..Len(R) : R[k] = k - 1
        /\ \A j, k \in 1..Len(R) : j < k => ULess(R[j], R[k])

\* a call failed and a later call succeeded, by the main thread or a handler
C1_Witness ==
    \E p, q \in Pos :
        /\ p < q
        /\ IsAdd(hist[p]) /\ ~hist[p].ok
        /\ IsOkAdd(hist[q])
        /\ Returned # <<>>

(* ------------------------------- C2 ------------------------------------ *)
\* C2: an event that is dequeued is dispatched exactly once; when a handler H
\* is registered under its index, the invocation that starts is H's; after H
\* returned success H is registered under the same index again, so firing
\* successfully never removes a handler and a later event invokes H again.
C2_InvokedOnceAndPutBack ==
    /\ LET D == SelectSeq(hist, IsDequeue)
       IN  /\ \A j, k \in 1..Len(D) : j # k => D[j].seq # D[k].seq
           /\ Len(D) + Len(queue) = sent
    /\ \A i \in {hist[p].idx : p \in Starts} :
          LET A == About(i)
          IN  /\ \A k \in 1..Len(A) :
                    A[k].ev = "start" =>
                        k > 1 /\ Registers(A[k - 1], A[k].id)
              /\ (A[Len(A)].ev = "end" /\ A[Len(A)].ok) =>
                    /\ ContainsKey(callback, i)
                    /\ callback[i].id = A[Len(A)].id

\* the same handler was invoked for two events of its index, the first
\* invocation having returned success
C2_Witness ==
    \E p, q, r \in Pos :
        /\ p < q /\ q < r
        /\ hist[p].ev = "start"
        /\ hist[q].ev = "end" /\ hist[q].ok /\ hist[q].seq = hist[p].seq
        /\ hist[r].ev = "start" /\ hist[r].idx = hist[p].idx
        /\ hist[r].id = hist[p].id /\ hist[r].seq # hist[p].seq

(* ------------------------------- C3 ------------------------------------ *)
\* C3: when the running handler returns an error, the wait_for_message call
\* that invoked it returns that error, wrapped once as Error::Error and
\* otherwise unchanged, in the same step: its frame is gone, its caller gets
\* the error, and nothing was taken from the channel.
C3_HandlerErrorEndsCall ==
    [][ (/\ HandlerRunning
         /\ Len(hist') > Len(hist)
         /\ hist'[Len(hist) + 1].ev = "end"
         /\ ~hist'[Len(hist) + 1].ok) =>
          LET e == HandlerErr(Top)
              n == Len(hist)
          IN  /\ queue' = queue
              /\ Len(stack') = Len(stack) - 1
              /\ result'.depth = Len(stack)
              /\ ~result'.res.ok
              /\ result'.res.err.tag = e.tag
              /\ result'.res.err.src = e.src
              /\ result'.res.err.wraps = e.wraps + 1
              /\ stack' # <<>> => stack'[Len(stack')].sub = result'.res
              /\ Len(hist') = n + 2
              /\ hist'[n + 1].seq = Top.seq
              /\ hist'[n + 2].ev = "return" /\ ~hist'[n + 2].ok
      ]_vars

\* the outermost call returned a handler's error with an event still queued
C3_Witness ==
    /\ hist # <<>>
    /\ hist[Len(hist)].ev = "return"
    /\ ~hist[Len(hist)].ok
    /\ stack = <<>>
    /\ result.res.err.tag = "HandlerError"
    /\ result.res.err.wraps = 1
    /\ queue # <<>>

(* ------------------------------- C4 ------------------------------------ *)
\* the invocation started at p is still in progress at position q
OpenAt(p, q) ==
    /\ p < q
    /\ hist[p].ev = "start"
    /\ \A r \in Pos : (p < r /\ r < q) =>
          ~(hist[r].ev = "end" /\ hist[r].seq = hist[p].seq)

\* C4 as claimed: an event pushed for index i while the handler of i runs
\* never finds the handler, hence never fires it.
C4_Original ==
    \A p \in Pos :
        (hist[p].ev \in {"start", "miss"} /\ hist[p].seq \in busy_sent) =>
            hist[p].ev = "miss"

\* C4 (amended): while an invocation of the handler of index i is in progress
\* the registry has no entry for i, so an event for i that is dequeued during
\* the invocation (by a wait_for_message call the handler made) finds no
\* handler, and the handler of i is never invoked while it is running.
C4_NoReentrantInvocation ==
    /\ \A j, k \in 1..Len(stack) :
          (stack[j].pc = "handler" /\ stack[k].pc = "handler"
             /\ stack[j].msg = stack[k].msg) => j = k
    /\ \A k \in 1..Len(stack) :
          stack[k].pc = "handler" => ~ContainsKey(callback, stack[k].msg)
    /\ \A p \in Starts :
          \A q \in {r \in Starts : r > p /\ hist[r].idx = hist[p].idx} :
              ~OpenAt(p, q)

\* an event pushed for the running handler's index was dequeued during the
\* invocation and found no handler
C4_Witness ==
    \E p, q \in Pos :
        /\ OpenAt(p, q)
        /\ hist[q].ev = "miss"
        /\ hist[q].idx = hist[p].idx
        /\ hist[q].seq \in busy_sent
        /\ Running(hist[p].idx)

(* ------------------------------- C5 ------------------------------------ *)
\* wait_for_message is blocked in recv on a closed and empty channel
AtClosedRecv ==
    /\ stack # <<>>
    /\ Top.pc = "recv"
    /\ closed
    /\ queue = <<>>

\* C5: when the channel is closed and empty, the blocked wait_for_message can
\* go on, and what it does is call quit on the window and return Ok(()); a
\* call returns Ok(()) only that way, and an Err only after a handler error.
C5_ClosureQuitsAndReturnsOk ==
    /\ [](AtClosedRecv => ENABLED RecvClosed)
    /\ [](\A p \in Pos : hist[p].ev = "return" =>
            /\ p > 1
            /\ hist[p].ok => (hist[p - 1].ev = "quit_on_close" /\ closed)
            /\ ~hist[p].ok => (hist[p - 1].ev = "end" /\ ~hist[p - 1].ok))
    /\ [][ (AtClosedRecv /\ stack' # stack) =>
             LET n == Len(hist)
             IN  /\ quit_calls' = quit_calls + 1
                 /\ result' = [depth |-> Len(stack), res |-> Ok]
                 /\ Len(stack') = Len(stack) - 1
                 /\ Len(hist') = n + 2
                 /\ hist'[n + 1].ev = "quit_on_close"
                 /\ hist'[n + 2].ev = "return" /\ hist'[n + 2].ok
       ]_vars

\* events were dispatched, then the channel was closed and the outermost call
\* returned Ok(()) after quit
C5_Witness ==
    /\ stack = <<>>
    /\ closed
    /\ Len(hist) > 2
    /\ hist[Len(hist)].ev = "return" /\ hist[Len(hist)].ok
    /\ hist[Len(hist) - 1].ev = "quit_on_close"
    /\ \E p \in Pos : hist[p].ev = "start"
    /\ quit_calls > 0

(* ------------------------------- C6 ------------------------------------ *)
\* C6: dequeuing an event whose index has no registry entry changes nothing
\* but the channel: no handler is invoked, registry and counter are as
\* before, and the call is still blocked in recv for the next event.
C6_MissIsNoOp ==
    [][ (/\ stack # <<>>
         /\ Top.pc = "recv"
         /\ queue # <<>>
         /\ ~ContainsKey(callback, Head(queue).menu_index)
         /\ queue' = Tail(queue)) =>
          /\ callback' = callback
          /\ menu_idx' = menu_idx
          /\ stack' = stack
          /\ result' = result
          /\ quit_calls' = quit_calls
          /\ hist' = Append(hist, Entry("miss", Head(queue).menu_index,
                                        Head(queue).seq, -1, TRUE, <<>>,
                                        Len(stack)))
      ]_vars

\* an event for an index that was never allocated was skipped and the same
\* call went on to invoke a handler for the next event
C6_Witness ==
    \E p, q \in Pos :
        /\ p < q
        /\ hist[p].ev = "miss"
        /\ \A k \in 1..Len(Returned) : Returned[k] # hist[p].idx
        /\ hist[q].ev = "start"
        /\ hist[q].depth = hist[p].depth
        /\ \A r \in Pos : (p < r /\ r < q) => hist[r].ev # "return"

(* ------------------------------- C7 ------------------------------------ *)
\* in the sequence A of add_* calls, k is the first successful call after
\* the failed call j
NextOkAfterFailure(A, j, k) ==
    /\ j < k
    /\ ~A[j].ok
    /\ A[k].ok
    /\ \A m \in (j + 1)..(k - 1) : ~A[m].ok

\* C7 as claimed: a failed call consumes its index, the next successful call
\* returns a strictly greater one.
C7_Original ==
    LET A == AddCalls
    IN  \A j, k \in 1..Len(A) :
            NextOkAfterFailure(A, j, k) => ULess(A[j].idx, A[k].ret[1])

\* C7 (amended): a failed add_menu_item or add_menu_separator leaves the
\* counter where it was; the next call reads the same index and the next
\* successful call returns exactly the index the failed call tried to use.
C7_FailureKeepsIndex ==
    LET A == AddCalls
    IN  /\ \A j, k \in 1..Len(A) :
              NextOkAfterFailure(A, j, k) => A[k].ret = <<A[j].idx>>
        /\ \A j \in 1..(Len(A) - 1) : ~A[j].ok => A[j + 1].idx = A[j].idx
        /\ (A # <<>> /\ ~A[Len(A)].ok) => menu_idx = A[Len(A)].idx

\* an add_menu_item call failed, the next call succeeded, and there is a
\* handler under the index the failed call had tried
C7_Witness ==
    \E p, q \in Pos :
        /\ q = p + 1
        /\ hist[p].ev = "add_menu_item" /\ ~hist[p].ok
        /\ hist[q].ev = "add_menu_item" /\ hist[q].ok
        /\ ContainsKey(callback, hist[p].idx)

(* ------------------------------- C8 ------------------------------------ *)
\* C8: a failed add_menu_item leaves the registry exactly as it was; an
\* entry of the registry changes only when add_menu_item returned Ok for that
\* index (the window created the entry) or a handler taken for a dispatch is
\* put back.
C8_FailedAddStoresNothing ==
    [][ LET n == Len(hist')
        IN  /\ (/\ n = Len(hist) + 1
                /\ hist'[n].ev = "add_menu_item"
                /\ ~hist'[n].ok) => callback' = callback
            /\ \A k \in DOMAIN callback' :
                  (k \notin DOMAIN callback \/ callback'[k] # callback[k]) =>
                      /\ n = Len(hist) + 1
                      /\ \/ /\ hist'[n].ev = "add_menu_item"
                            /\ hist'[n].ok
                            /\ hist'[n].ret = <<k>>
                            /\ hist'[n].id = callback'[k].id
                         \/ /\ hist'[n].ev = "end"
                            /\ hist'[n].ok
                            /\ hist'[n].idx = k
                            /\ hist'[n].id = callback'[k].id
      ]_vars

\* the last call was a failed add_menu_item on a non-empty registry, and the
\* index it tried has no handler
C8_Witness ==
    /\ hist # <<>>
    /\ hist[Len(hist)].ev = "add_menu_item"
    /\ ~hist[Len(hist)].ok
    /\ DOMAIN callback # {}
    /\ ~ContainsKey(callback, hist[Len(hist)].idx)

(* ------------------------------- C9 ------------------------------------ *)
\* the invocation for event s has returned before position q
EndedBefore(s, q) ==
    \E r \in Pos : r < q /\ hist[r].ev = "end" /\ hist[r].seq = s

\* C9 as claimed: of two events with handlers, the invocation for the earlier
\* one has returned before the invocation for the later one starts.
C9_Original ==
    \A p, q \in Starts :
        hist[p].seq < hist[q].seq =>
            /\ p < q
            /\ EndedBefore(hist[p].seq, q)

\* C9 (amended): events are dequeued in the order they were pushed, so the
\* invocation for the earlier event starts first; it has also returned before
\* the later one starts, unless the earlier handler itself called
\* wait_for_message and that nested call dispatched the later event, whose
\* invocation then returns before the earlier one does.
C9_FifoDispatch ==
    /\ LET D == SelectSeq(hist, IsDequeue)
       IN  \A k \in 1..(Len(D) - 1) : D[k].seq < D[k + 1].seq
    /\ \A p, q \in Starts :
          hist[p].seq < hist[q].seq =>
              /\ p < q
              /\ \/ EndedBefore(hist[p].seq, q)
                 \/ /\ hist[q].depth > hist[p].depth
                    /\ \A r \in Pos :
                          (hist[r].ev = "end" /\ hist[r].seq = hist[p].seq) =>
                              EndedBefore(hist[q].seq, r)

\* two events for different handlers: the first invocation started and
\* returned, then the second started
C9_Witness ==
    \E p, q \in Pos :
        /\ hist[p].ev = "start" /\ hist[q].ev = "start"
        /\ hist[p].seq < hist[q].seq
        /\ hist[p].idx # hist[q].idx
        /\ hist[p].depth = hist[q].depth
        /\ EndedBefore(hist[p].seq, q)

(* ------------------------------- C10 ----------------------------------- *)
\* indices returned by successful add_menu_separator calls
SeparatorIndices ==
    {hist[p].ret[1] : p \in {r \in Pos : hist[r].ev = "add_menu_separator"
                                         /\ hist[r].ok}}

\* C10: every invocation is for an index that an earlier successful
\* add_menu_item returned; a separator's index has no registry entry, is not
\* the index of a running handler and never starts an invocation.
C10_OnlyItemsInvoked ==
    /\ \A p \in Pos : hist[p].ev = "start" =>
          \E r \in Pos : /\ r < p
                         /\ hist[r].ev = "add_menu_item"
                         /\ hist[r].ok
                         /\ hist[r].ret = <<hist[p].idx>>
    /\ \A i \in SeparatorIndices :
          /\ ~ContainsKey(callback, i)
          /\ ~Running(i)
          /\ \A p \in Pos : hist[p].ev = "start" => hist[p].idx # i

\* a handler was invoked, and an event carrying a separator's index was
\* dequeued without invoking anything
C10_Witness ==
    \E p, q \in Pos :
        /\ hist[p].ev = "start"
        /\ hist[q].ev = "miss"
        /\ hist[q].idx \in SeparatorIndices

(* ------------------------------- C11 ----------------------------------- *)
\* the positions at which a wait_for_message call returned
Returns == {p \in Pos : hist[p].ev = "return"}

\* C11 as stated: once the outermost wait_for_message call has returned, no
\* handler is invoked any more, even if wait_for_message is called again
C11_Original ==
    \A p \in Returns : \A q \in Starts : hist[p].depth = 1 => q < p

\* C11: a wait_for_message call that returned is no longer active, and while
\* no call is active nothing is dequeued and no handler is invoked, events
\* that arrive staying in the channel; after a return caused by closure
\* nothing is ever dequeued again.  (A later call made after an error return
\* does dispatch what is queued: the Application keeps no terminated state.)
C11_ReturnedCallDispatchesNothing ==
    /\ [](Len(stack) = waits - Cardinality(Returns))
    /\ [](\A p \in Returns : hist[p].ok =>
             /\ queue = <<>> /\ closed
             /\ \A q \in Pos : q > p => ~IsDequeue(hist[q]))
    /\ [][ InMain /\ ~WaitForMessage =>
             /\ stack' = stack
             /\ callback' \in {callback, Insert(callback, menu_idx, make_callback(closures))}
             /\ \A q \in DOMAIN hist' : q > Len(hist) => IsAdd(hist'[q])
             /\ Len(queue') >= Len(queue)
             /\ SubSeq(queue', 1, Len(queue)) = queue ]_vars

\* a call returned a handler's error with an event left in the channel, and
\* a second call made by the main thread invoked the handler of that event
C11_Witness ==
    \E p \in Returns : \E q \in Starts :
        /\ hist[p].depth = 1
        /\ ~hist[p].ok
        /\ q > p
        /\ hist[q].depth = 1
        /\ hist[q].seq > hist[p - 1].seq

(* ------------------------------- C12 ----------------------------------- *)
\* the positions at which an invocation returned an error
ErrEnds == {p \in Pos : hist[p].ev = "end" /\ ~hist[p].ok}

\* C12: a handler that returned an error is not put back: the step in which
\* wait_for_message returns that error leaves the registry as it was during
\* the invocation (no entry for the dispatched index, every other entry
\* unchanged), the index stays without entry afterwards, and every later
\* event for it invokes nothing
C12_ErroredHandlerNotRestored ==
    /\ [](\A p \in ErrEnds :
             /\ ~ContainsKey(callback, hist[p].idx)
             /\ \A q \in Pos : q > p /\ hist[q].idx = hist[p].idx
                                 => hist[q].ev = "miss")
    /\ [][ (Len(hist') > Len(hist) /\ Len(hist) + 1 \in
                {p \in DOMAIN hist' : hist'[p].ev = "end" /\ ~hist'[p].ok})
           => /\ callback' = callback
              /\ ~ContainsKey(callback', Top.msg)
              /\ hist'[Len(hist) + 1].idx = Top.msg
              /\ hist'[Len(hist')].ev = "return"
              /\ ~hist'[Len(hist')].ok ]_vars

\* the handler of one index returned an error, another handler is still
\* registered, and a later event for the first index found no handler
C12_Witness ==
    \E p \in ErrEnds : \E q \in Pos :
        /\ q > p
        /\ hist[q].ev = "miss"
        /\ hist[q].idx = hist[p].idx
        /\ \E k \in DOMAIN callback : k # hist[p].idx

(* ------------------------------- C13 ----------------------------------- *)
\* The scenario: the main thread registers "Exit" (closure 0, index 0) and
\* "Hello" (closure 1, index 1) and calls wait_for_message once; the Exit
\* closure calls quit and returns Ok, the Hello closure returns Ok; the
\* window sends events and drops its Sender.
ExitId == 0
HelloId == 1

\* the two add_menu_item calls of the main thread, both accepted
ScnRegister ==
    /\ InMain
    /\ closures <= HelloId
    /\ waits = 0
    /\ AddMenuItem(TRUE)

Registered == closures > HelloId

\* the main thread's single call of wait_for_message
ScnWait ==
    /\ InMain
    /\ Registered
    /\ waits = 0
    /\ WaitForMessage

\* the window sends an event once the menu exists
ScnEmit ==
    /\ Registered
    /\ Enqueue

\* the window goes away
ScnClose ==
    /\ Registered
    /\ CloseChannel

\* the body of the Exit closure: window.quit()
ScnExitQuits ==
    /\ HandlerRunning
    /\ Top.f.id = ExitId
    /\ Quit

\* both closures return Ok(()), Exit after its quit call
ScnReturn ==
    /\ HandlerRunning
    /\ Top.f.id = ExitId => Top.done
    /\ HandlerReturnOk

\* the steps of the thread that owns the Application
ScnThread ==
    \/ ScnRegister
    \/ ScnWait
    \/ DispatchHit
    \/ DispatchMiss
    \/ RecvClosed
    \/ ScnExitQuits
    \/ ScnReturn

ScenarioNext ==
    \/ ScnRegister
    \/ ScnWait
    \/ ScnEmit
    \/ ScnClose
    \/ DispatchHit
    \/ DispatchMiss
    \/ RecvClosed
    \/ ScnExitQuits
    \/ ScnReturn

\* the owning thread keeps running: a recv that can return does return, and
\* a closure that was invoked runs to its end
ScenarioSpec == Init /\ [][ScenarioNext]_vars /\ WF_vars(ScnThread)

\* the index carried by the s-th event the window sent
SentIndex(s) ==
    CHOOSE i \in EventIndices :
        \/ \E p \in Pos : IsDequeue(hist[p]) /\ hist[p].seq = s /\ hist[p].idx = i
        \/ \E k \in DOMAIN queue : queue[k].seq = s /\ queue[k].menu_index = i

\* the window sent Event{1}, then Event{0}, and then closed the channel
ScnScript ==
    /\ closed
    /\ sent = 2
    /\ SentIndex(0) = 1
    /\ SentIndex(1) = 0

\* what the loop did so far: the history without the registrations
ScnTrace ==
    LET T == SelectSeq(hist, LAMBDA e : ~IsAdd(e))
    IN  [k \in DOMAIN T |-> <<T[k].ev, T[k].id, T[k].ok>>]

\* Hello fires, then Exit fires and quits, then closure is seen
ScnExpected ==
    << <<"start", HelloId, TRUE>>, <<"end", HelloId, TRUE>>,
       <<"start", ExitId, TRUE>>, <<"quit", -1, TRUE>>, <<"end", ExitId, TRUE>>,
       <<"quit_on_close", -1, TRUE>>, <<"return", -1, TRUE>> >>

ScnDone ==
    /\ ScnTrace = ScnExpected
    /\ stack = <<>>
    /\ result = [depth |-> 1, res |-> Ok]

\* C13: when the window sends Event{1}, Event{0} and closes the channel, the
\* Hello handler is invoked exactly once, then the Exit handler exactly once,
\* and wait_for_message eventually returns Ok(())
C13_ExitScenarioTerminates ==
    /\ [](ScnScript =>
            /\ Len(ScnTrace) <= Len(ScnExpected)
            /\ ScnTrace = SubSeq(ScnExpected, 1, Len(ScnTrace)))
    /\ (ScnScript ~> ScnDone)
    /\ [](ScnDone => [](ScnDone))

\* the scenario has run to its end
C13_Witness ==
    /\ ScnScript
    /\ ScnDone
    /\ quit_calls = 2
    /\ DOMAIN callback = {0, 1}

(* ------------------------------- C14 ----------------------------------- *)
DirectCall == <<"set_icon_from_file", icon.file.path>>

BufferSetters == {"set_icon_from_buffer", "set_icon_from_image_buffer"}

HandlerAdds ==
    {p \in Pos : hist[p].ev = "add_menu_item" /\ hist[p].ok /\ hist[p].depth > 0}

\* C15: an item that a handler registers during its invocation gets an index
\* that was never registered or dispatched before, so one different from the
\* index of every invocation in progress; the put-back of a handler that
\* returned success adds its own key only and changes no other entry; and
\* the item stays registered with the closure given, as long as it is not
\* itself taken for an invocation
C15_HandlerMayRegister ==
    /\ [](\A p \in HandlerAdds :
             LET i == hist[p].ret[1]
                 A == About(i)
             IN  /\ A[1] = hist[p]
                 /\ \A q \in Starts : OpenAt(q, p) => hist[q].idx # i
                 /\ Registers(A[Len(A)], hist[p].id) =>
                       /\ ContainsKey(callback, i)
                       /\ callback[i].id = hist[p].id)
    /\ [][ (Len(hist') = Len(hist) + 1 /\ hist'[Len(hist')].ev = "end")
           => /\ ~ContainsKey(callback, Top.msg)
              /\ DOMAIN callback' = DOMAIN callback \cup {Top.msg}
              /\ \A k \in DOMAIN callback : callback'[k] = callback[k]
              /\ callback'[Top.msg] = Top.f ]_vars

\* a handler registered an item and returned success: both it and the new
\* item are in the registry
C15_Witness ==
    \E p \in HandlerAdds : \E q \in Starts : \E r \in Pos :
        /\ q < p /\ p < r
        /\ hist[q].depth = hist[p].depth
        /\ hist[r].ev = "end" /\ hist[r].ok /\ hist[r].seq = hist[q].seq
        /\ ContainsKey(callback, hist[q].idx)
        /\ callback[hist[q].idx].id = hist[q].id
        /\ ContainsKey(callback, hist[p].ret[1])
        /\ callback[hist[p].ret[1]].id = hist[p].id

(* ------------------------------- C16 ----------------------------------- *)
\* the positions of the quit calls made by handlers
HandlerQuits == {p \in Pos : hist[p].ev = "quit"}

\* the number of events dequeued up to position p of the history
DequeuedBy(p) == Len(SelectSeq(SubSeq(hist, 1, p), IsDequeue))

\* C16: a handler that calls quit and returns success does not end the loop:
\* the quit call leaves channel and loop as they are, the wait_for_message
\* call that invoked the handler is blocked in recv again after the return,
\* a call returns only right after recv reported closure (Ok) or right after
\* a handler's error (Err), and when it returns Ok every event ever sent has
\* been dequeued
C16_QuitDoesNotEndLoop ==
    /\ [](\A p \in HandlerQuits : p < Len(hist) =>
             /\ hist[p + 1].ev = "end"
             /\ (hist[p + 1].ok /\ p + 1 < Len(hist)) =>
                    hist[p + 2].ev # "return")
    /\ [](\A p \in Returns :
             /\ p > 1
             /\ hist[p].ok => /\ hist[p - 1].ev = "quit_on_close"
                              /\ DequeuedBy(p) = sent
             /\ ~hist[p].ok => hist[p - 1].ev = "end" /\ ~hist[p - 1].ok)
    /\ [][ (hist # <<>> /\ hist[Len(hist)].ev = "quit"
              /\ Len(hist') > Len(hist) /\ hist'[Len(hist) + 1].ok)
           => /\ Len(stack') = Len(stack)
              /\ stack'[Len(stack')] = RecvFrame
              /\ queue' = queue
              /\ closed' = closed
              /\ result' = result ]_vars
    /\ [][ (Len(hist') > Len(hist) /\ hist'[Len(hist')].ev = "quit")
           => /\ Len(stack') = Len(stack)
              /\ queue' = queue
              /\ closed' = closed ]_vars

\* a handler called quit and returned success, the same wait_for_message call
\* then invoked a handler for a later event, and returned Ok on closure
C16_Witness ==
    \E p \in HandlerQuits : \E q \in Starts : \E r \in Returns :
        /\ p + 1 < q /\ q < r
        /\ hist[p + 1].ev = "end" /\ hist[p + 1].ok
        /\ hist[q].depth = hist[p].depth
        /\ hist[r].depth = hist[p].depth
        /\ hist[r].ok

(* ------------------------------- C17 ----------------------------------- *)
\* About(i) for the first n entries of the history
AboutUpTo(i, n) ==
    SelectSeq(SubSeq(hist, 1, n), LAMBDA e :
        \/ e.ev = "add_menu_item" /\ e.ok /\ e.ret = <<i>>
        \/ e.ev \in {"start", "end"} /\ e.idx = i)

\* the positions at which an event sent during an invocation for its own
\* index was dequeued
BusyDequeues == {q \in Pos : IsDequeue(hist[q]) /\ hist[q].seq \in busy_sent}

\* C17 as stated: an event sent for index i while the handler of i runs is
\* dequeued only after that handler returned success and was put back, and
\* invokes it a second time
C17_Original ==
    \A q \in BusyDequeues :
        LET B == AboutUpTo(hist[q].idx, q - 1)
        IN  /\ hist[q].ev = "start"
            /\ B[Len(B)].ev = "end"
            /\ B[Len(B)].ok

\* C17: an event sent for index i while the handler of i runs stays in the
\* channel until it is dequeued, once.  Dequeued after the handler returned
\* success and was put back, it invokes the same handler again; dequeued
\* while the invocation is in progress (by a wait_for_message call of the
\* handler) or after the handler returned an error, it invokes nothing.
C17_BusyEventFate ==
    /\ \A s \in busy_sent :
          Cardinality({q \in BusyDequeues : hist[q].seq = s})
            + Cardinality({k \in DOMAIN queue : queue[k].seq = s}) = 1
    /\ \A q \in BusyDequeues :
          LET B == AboutUpTo(hist[q].idx, q - 1)
              last == B[Len(B)]
          IN  /\ B # <<>>
              /\ last.ev \in {"start", "end"}
              /\ hist[q].ev = "start" <=> (last.ev = "end" /\ last.ok)
              /\ hist[q].ev = "start" => hist[q].id = last.id

\* an event sent during an invocation for its index was dequeued after the
\* put-back and invoked the same handler a second time
C17_Witness ==
    \E q \in BusyDequeues : \E p \in Starts :
        /\ p < q
        /\ hist[q].ev = "start"
        /\ hist[p].idx = hist[q].idx
        /\ hist[p].id = hist[q].id
        /\ hist[p].seq < hist[q].seq
        /\ EndedBefore(hist[p].seq, q)

(* ------------------------------- C18 ----------------------------------- *)
\* the indices whose handler returned an error
ErroredIndices == {hist[p].idx : p \in ErrEnds}

\* the indices whose handler is being invoked
RunningIndices ==
    {stack[k].msg : k \in {j \in 1..Len(stack) : stack[j].pc = "handler"}}

\* C18: every registry key is below the counter; a key holds one handler, a
\* closure that was handed to add_menu_item, and no closure is stored under
\* two keys; the counter never decreases; an index below the counter without
\* entry is a separator's, or that of a handler being invoked, or that of a
\* handler that returned an error
C18_RegistryInvariant ==
    /\ [](\A k \in DOMAIN callback :
             /\ ULess(k, menu_idx)
             /\ callback[k].id \in 0..(closures - 1)
             /\ \A j \in DOMAIN callback : callback[j] = callback[k] => j = k)
    /\ [](\A i \in 0..(menu_idx - 1) :
             ~ContainsKey(callback, i) =>
                 i \in SeparatorIndices \cup RunningIndices \cup ErroredIndices)
    /\ [][ ~ULess(menu_idx', menu_idx) ]_vars

\* two indices were handed out and neither has an entry: one belongs to a
\* handler being invoked, the other to a separator or to a handler that
\* returned an error
C18_Witness ==
    /\ menu_idx = 2
    /\ callback = EmptyMap
    /\ RunningIndices # {}
    /\ \E i \in SeparatorIndices \cup ErroredIndices : i \notin RunningIndices

(* ------------------------------- C19 ----------------------------------- *)
\* the successful add_menu_item calls that were the first to return their
\* index
FirstItems ==
    {p \in Pos : /\ hist[p].ev = "add_menu_item" /\ hist[p].ok
                 /\ \A q \in Pos : (q < p /\ IsOkAdd(hist[q])) =>
                                       hist[q].ret # hist[p].ret}

\* C19: the counter being u32::MAX, further add_menu_item and
\* add_menu_separator calls never return an index that an earlier call
\* returned, and never replace the handler registered under an index handed
\* out earlier
C19_NoIndexReuse ==
    /\ \A p, q \in Pos :
          (p < q /\ IsOkAdd(hist[p]) /\ IsOkAdd(hist[q])) =>
              hist[p].ret # hist[q].ret
    /\ \A p \in FirstItems :
          ContainsKey(callback, hist[p].ret[1]) =>
              callback[hist[p].ret[1]].id = hist[p].id

====
